---- MODULE Spec2Model ----
(***************************************************************************)
(* Commerce transaction core of the marketplace backend: cart pricing,     *)
(* checkout, payment reconciliation, cancellation and payout batching.     *)
(*                                                                         *)
(* Every collection of the database is a variable.  A request handler that *)
(* awaits the database between a read and a later write is split at that   *)
(* await, so that other requests may run in between; the handler's locals  *)
(* live in the request's record.  Money is counted in hundredths of the    *)
(* currency unit, and the inputs are multiples of 100 so that every        *)
(* percentage the code computes is exact.                                  *)
(***************************************************************************)
EXTENDS Integers, Sequences, FiniteSets, TLC

VARIABLES
  carts,       \* Cart collection: sequence of documents, _id = index
  snapshots,   \* CartSnapshot collection
  orders,      \* Order collection
  payments,    \* Payment collection
  trackings,   \* DeliveryTracking collection
  offers,      \* Offer collection
  payouts,     \* Payout collection
  catalog,     \* Product and Coupon documents the cart prices against
  gateway,     \* the payment gateway: orders created and refunds issued
  payoutReq,   \* in-flight generatePayout requests
  offerReq,    \* in-flight createOffer requests
  cartReq,     \* in-flight cart requests
  orderReq,    \* in-flight createOrder requests (one transaction each)
  paymentReq,  \* in-flight createRazorpayOrder requests
  env          \* process.env of the server

vars == <<carts, snapshots, orders, payments, trackings, offers, payouts,
          catalog, gateway, payoutReq, offerReq, cartReq, orderReq,
              paymentReq, env>>

Stores == {"s1", "s2"}
Users == {"u1"}
NoId == 0

\* The elements of a set of numbers as an ascending sequence (a query's
\* result in _id order).
RECURSIVE SortedSeq(_)
SortedSeq(S) ==
  IF S = {} THEN <<>>
  ELSE LET m == CHOOSE x \in S : \A y \in S : x <= y
       IN <<m>> \o SortedSeq(S \ {m})

RECURSIVE SumSeq(_)
SumSeq(s) == IF s = <<>> THEN 0 ELSE Head(s) + SumSeq(Tail(s))

Range(s) == {s[i] : i \in DOMAIN s}

Min2(a, b) == IF a <= b THEN a ELSE b
Max2(a, b) == IF a >= b THEN a ELSE b

(***************************************************************************)
(* Payout batcher                                                          *)
(***************************************************************************)
MaxPayouts == 3
PayoutReqs == {"g1", "g2"}
PayoutOrderIds == {1, 2, 3}
FeePcts == {0, 10}

\* An order document as the payout batcher reads it.
PayoutOrder(store, orderStatus, paymentStatus, amount) ==
  [store |-> store, orderStatus |-> orderStatus,
   paymentStatus |-> paymentStatus, totalPayableAmount |-> amount]

PayoutIdle ==
  [pc |-> "idle", store |-> "s1", orderIds |-> {}, items |-> <<>>]

\* Payout.distinct("items.order", {store})
ordersInPayouts(storeId) ==
  UNION {{payouts[i].items[j].order : j \in DOMAIN payouts[i].items} :
           i \in {k \in DOMAIN payouts : payouts[k].store = storeId}}

\* A query without the $nin of the orders already paid out.
eligibleOrders_repeat(storeId, orderIds) ==
  {o \in (orderIds \cap DOMAIN orders) :
     /\ orders[o].store = storeId
     /\ orders[o].orderStatus = "delivered"
     /\ orders[o].paymentStatus = "captured"}

\* Order.find({_id: {$in: orderIds, $nin: ordersInPayouts}, store,
\*             orderStatus: delivered, paymentStatus: captured})
eligibleOrders(storeId, orderIds) ==
  {o \in (orderIds \cap DOMAIN orders) :
     /\ o \notin ordersInPayouts(storeId)
     /\ orders[o].store = storeId
     /\ orders[o].orderStatus = "delivered"
     /\ orders[o].paymentStatus = "captured"}

payoutItem(o, pct) ==
  LET amount == orders[o].totalPayableAmount
      platformFee == (amount * pct) \div 100
  IN [order |-> o, amount |-> amount, platformFee |-> platformFee,
      tax |-> 0, netAmount |-> amount - platformFee - 0]

\* generatePayout up to the point where the payout document is built: the
\* two reads run in the request's transaction, on one snapshot.
gpRead(r, storeId, orderIds, pct) ==
  /\ payoutReq[r].pc = "idle"
  /\ Len(payouts) + Cardinality({q \in PayoutReqs : payoutReq[q].pc = "save"})
       < MaxPayouts
  /\ LET found == SortedSeq(eligibleOrders(storeId, orderIds))
     IN IF storeId \notin Stores \/ found = <<>>
        THEN UNCHANGED payoutReq
        ELSE payoutReq' = [payoutReq EXCEPT ![r] =
               [pc |-> "save", store |-> storeId, orderIds |-> orderIds,
                items |-> [i \in DOMAIN found |-> payoutItem(found[i], pct)]]]
  /\ UNCHANGED <<carts, snapshots, orders, payments, trackings, offers,
                 payouts, catalog, gateway, offerReq, cartReq, orderReq,
              paymentReq, env>>

\* payout.save({session}) with the pre-save hook that numbers the batch,
\* then commitTransaction: the insert conflicts with no other document.
gpSave(r) ==
  /\ payoutReq[r].pc = "save"
  /\ LET it == payoutReq[r].items
         totalAmount == SumSeq([i \in DOMAIN it |-> it[i].amount])
         totalPlatformFee == SumSeq([i \in DOMAIN it |-> it[i].platformFee])
         totalTax == SumSeq([i \in DOMAIN it |-> it[i].tax])
     IN payouts' = Append(payouts,
          [store |-> payoutReq[r].store,
           payoutBatch |-> Len(payouts) + 1,
           items |-> it,
           totalAmount |-> totalAmount,
           totalPlatformFee |-> totalPlatformFee,
           totalTax |-> totalTax,
           netPayoutAmount |-> totalAmount - totalPlatformFee - totalTax,
           status |-> "pending",
           transactionId |-> ""])
  /\ payoutReq' = [payoutReq EXCEPT ![r] = PayoutIdle]
  /\ UNCHANGED <<carts, snapshots, orders, payments, trackings, offers,
                 catalog, gateway, offerReq, cartReq, orderReq,
              paymentReq, env>>

generatePayout ==
  \E r \in PayoutReqs :
    \/ \E storeId \in Stores \cup {"s9"}, orderIds \in SUBSET PayoutOrderIds,
          pct \in FeePcts : gpRead(r, storeId, orderIds, pct)
    \/ gpSave(r)

\* Orders as the order life cycle leaves them: two of store s1 and one of
\* store s2, each delivered and captured or short of it.
PayoutInit ==
  /\ carts = <<>> /\ snapshots = <<>> /\ payments = <<>> /\ trackings = <<>>
  /\ offers = <<>> /\ payouts = <<>> /\ catalog = <<>> /\ gateway = <<>>
  /\ \E st \in [PayoutOrderIds ->
                  {<<"delivered", "captured">>, <<"delivered", "pending">>,
                   <<"shipped", "captured">>}] :
       orders = [o \in PayoutOrderIds |->
                   PayoutOrder(IF o = 3 THEN "s2" ELSE "s1",
                               st[o][1], st[o][2], o * 10000)]
  /\ payoutReq = [r \in PayoutReqs |-> PayoutIdle]
  /\ offerReq = <<>> /\ cartReq = <<>> /\ orderReq = <<>>
  /\ paymentReq = <<>> /\ env = <<>>

PayoutNext == generatePayout

SpecPayout == PayoutInit /\ [][PayoutNext]_vars

MaxOffers == 3
MaxActiveOffers == 2
OfferReqs == {"o1", "o2"}
Products == {"p1", "p2", "p3"}
ProductStore(p) == IF p = "p3" THEN "s2" ELSE "s1"

\* The discount fields of a request body: a 10% offer, and an amount offer
\* whose amount is missing.
OfferDiscounts ==
  {[type |-> "percentage", discountAmt |-> 0, discountPercentage |-> 10,
    maxDiscount |-> 0],
   [type |-> "amount", discountAmt |-> 0, discountPercentage |-> 0,
    maxDiscount |-> 0]}

\* req.body of POST /api/offers; isActive may be left out of the body.
OfferBodies ==
  [store : Stores \cup {"s9"}, products : SUBSET Products,
   isActive : {"true", "false", "absent"}, discount : OfferDiscounts]

\* req.body of PATCH /api/offers/:id; every field may be left out.
OfferUpdates ==
  {b \in [hasProducts : BOOLEAN, products : SUBSET Products,
          isActive : {"true", "false", "absent"}] :
     ~b.hasProducts => b.products = {}}

OfferIdle ==
  [pc |-> "idle", id |-> NoId,
   body |-> [store |-> "s1", products |-> {}, isActive |-> "absent",
             discount |-> CHOOSE d \in OfferDiscounts : d.type = "percentage"]]

\* The document new Offer(body) builds: a field left out takes its default.
offerDoc(body) ==
  [store |-> body.store,
   isActive |-> (body.isActive # "false"),
   products |-> body.products,
   isDeleted |-> FALSE,
   type |-> body.discount.type,
   discountAmt |-> body.discount.discountAmt,
   discountPercentage |-> body.discount.discountPercentage,
   maxDiscount |-> body.discount.maxDiscount]

\* isModified(path) of the new document: a path is modified when the body
\* set it, not when it holds the schema default.
isModifiedIsActive(body) == body.isActive # "absent"
isModifiedProducts(body) == body.products # {}

\* First pre-save hook: the discount of the offer's type must be positive.
discountValid(doc) ==
  /\ ~(doc.type = "amount" /\ doc.discountAmt <= 0)
  /\ ~(doc.type = "percentage" /\ doc.discountPercentage <= 0)

\* Second hook's query: other active offers of the store holding one of
\* the products.
existingOffers(doc) ==
  {i \in DOMAIN offers :
     /\ offers[i].store = doc.store
     /\ offers[i].isActive
     /\ offers[i].products \cap doc.products # {}
     /\ ~offers[i].isDeleted}

\* Third hook's query: the store's other active offers.
activeOffersCount(doc) ==
  Cardinality({i \in DOMAIN offers :
                 /\ offers[i].store = doc.store
                 /\ offers[i].isActive
                 /\ ~offers[i].isDeleted})

offerFrame ==
  UNCHANGED <<carts, snapshots, orders, payments, trackings, payouts,
              catalog, gateway, payoutReq, cartReq, orderReq,
              paymentReq, env>>

\* createOffer up to the first await of Offer.create: the controller's
\* store and product checks, then the synchronous first hook.
createOfferStart(r, body) ==
  /\ offerReq[r].pc = "idle"
  /\ Len(offers) + Cardinality({q \in DOMAIN offerReq :
                                  offerReq[q].pc \notin {"idle", "done"}})
       < MaxOffers
  /\ IF \/ body.store \notin Stores
        \/ \E p \in body.products : ProductStore(p) # body.store
        \/ ~discountValid(offerDoc(body))
     THEN UNCHANGED offerReq
     ELSE offerReq' = [offerReq EXCEPT ![r] =
                         [pc |-> "hook2", id |-> NoId, body |-> body]]
  /\ UNCHANGED offers
  /\ offerFrame

\* Second hook: one product in at most one active offer.
createOfferHook2(r) ==
  /\ offerReq[r].pc = "hook2"
  /\ LET body == offerReq[r].body
         doc == offerDoc(body)
     IN IF /\ isModifiedProducts(body) \/ isModifiedIsActive(body)
           /\ doc.isActive /\ doc.products # {}
           /\ existingOffers(doc) # {}
        THEN offerReq' = [offerReq EXCEPT ![r] = OfferIdle]
        ELSE offerReq' = [offerReq EXCEPT ![r].pc = "hook3"]
  /\ UNCHANGED offers
  /\ offerFrame

\* Third hook: at most two active offers per store.
createOfferHook3(r) ==
  /\ offerReq[r].pc = "hook3"
  /\ LET body == offerReq[r].body
         doc == offerDoc(body)
     IN IF /\ isModifiedIsActive(body) /\ doc.isActive
           /\ activeOffersCount(doc) >= MaxActiveOffers
        THEN offerReq' = [offerReq EXCEPT ![r] = OfferIdle]
        ELSE offerReq' = [offerReq EXCEPT ![r].pc = "insert"]
  /\ UNCHANGED offers
  /\ offerFrame

\* The insert Offer.create ends with.
createOfferInsert(r) ==
  /\ offerReq[r].pc = "insert"
  /\ offers' = Append(offers, offerDoc(offerReq[r].body))
  /\ offerReq' = [offerReq EXCEPT ![r].pc = "done", ![r].id = Len(offers) + 1]
  /\ offerFrame

\* The 201 response.
createOfferRespond(r) ==
  /\ offerReq[r].pc = "done"
  /\ offerReq' = [offerReq EXCEPT ![r] = OfferIdle]
  /\ UNCHANGED offers
  /\ offerFrame

createOffer(r) ==
  \/ \E body \in OfferBodies : createOfferStart(r, body)
  \/ createOfferHook2(r)
  \/ createOfferHook3(r)
  \/ createOfferInsert(r)
  \/ createOfferRespond(r)

\* updateOffer: findById, the product check, then findByIdAndUpdate, which
\* writes the body's fields to the stored document and runs no save hook.
updateOffer(id, body) ==
  /\ id \in DOMAIN offers
  /\ ~offers[id].isDeleted
  /\ \A p \in body.products : ProductStore(p) = offers[id].store
  /\ offers' = [offers EXCEPT
       ![id].isActive = IF body.isActive = "absent" THEN @
                        ELSE body.isActive = "true",
       ![id].products = IF body.hasProducts THEN body.products ELSE @]
  /\ UNCHANGED offerReq
  /\ offerFrame

\* deleteOffer: a soft delete through save(); the hooks see neither
\* products nor isActive modified.
deleteOffer(id) ==
  /\ id \in DOMAIN offers
  /\ ~offers[id].isDeleted
  /\ discountValid(offers[id])
  /\ offers' = [offers EXCEPT ![id].isDeleted = TRUE]
  /\ UNCHANGED offerReq
  /\ offerFrame

OfferInitFor(R) ==
  /\ carts = <<>> /\ snapshots = <<>> /\ orders = <<>> /\ payments = <<>>
  /\ trackings = <<>> /\ offers = <<>> /\ payouts = <<>> /\ catalog = <<>>
  /\ gateway = <<>>
  /\ offerReq = [r \in R |-> OfferIdle]
  /\ payoutReq = <<>> /\ cartReq = <<>> /\ orderReq = <<>>
  /\ paymentReq = <<>> /\ env = <<>>

OfferNextFor(R) ==
  \/ \E r \in R : createOffer(r)
  \/ \E id \in 1..MaxOffers, body \in OfferUpdates : updateOffer(id, body)
  \/ \E id \in 1..MaxOffers : deleteOffer(id)

\* One request at a time: a sequence of offer calls.
OfferSeqInit == OfferInitFor({"o1"})
OfferSeqNext == OfferNextFor({"o1"})
SpecOfferSeq == OfferSeqInit /\ [][OfferSeqNext]_vars

\* Two createOffer requests in flight.
OfferInit == OfferInitFor(OfferReqs)
OfferNext == \E r \in OfferReqs : createOffer(r)
SpecOffer == OfferInit /\ [][OfferNext]_vars

activeOffersOf(s) ==
  {i \in DOMAIN offers :
     offers[i].store = s /\ offers[i].isActive /\ ~offers[i].isDeleted}

offerExclusivity ==
  /\ \A s \in Stores : Cardinality(activeOffersOf(s)) <= MaxActiveOffers
  /\ \A p \in Products :
       Cardinality({i \in activeOffersOf(ProductStore(p)) :
                      p \in offers[i].products}) <= 1

\* C6: after any sequence of createOffer, updateOffer and deleteOffer calls
\* every store has at most 2 active non-deleted offers and every product is
\* in at most 1 active non-deleted offer of its store.
C6_OfferExclusivity == offerExclusivity

\* C7: two createOffer requests in flight at the same time (both have
\* inserted, neither has responded yet) whose offers are active in the same
\* store and share a product, or raise the store's active count above 2,
\* never both succeed.
C7_ConcurrentCreatesExclusive ==
  \A r1, r2 \in DOMAIN offerReq :
    (/\ r1 # r2
     /\ offerReq[r1].pc = "done" /\ offerReq[r2].pc = "done"
     /\ offers[offerReq[r1].id].store = offers[offerReq[r2].id].store
     /\ offers[offerReq[r1].id].isActive /\ ~offers[offerReq[r1].id].isDeleted
     /\ offers[offerReq[r2].id].isActive /\ ~offers[offerReq[r2].id].isDeleted)
    => /\ offers[offerReq[r1].id].products
            \cap offers[offerReq[r2].id].products = {}
       /\ Cardinality(activeOffersOf(offers[offerReq[r1].id].store))
            <= MaxActiveOffers

(***************************************************************************)
(* Catalog and cart pricing                                                *)
(***************************************************************************)
Quantities == {1, 2}
MaxCarts == 2
CartReqs == {"c1", "c2"}

\* Math.round(a / b) for a >= 0 and b > 0.
RoundDiv(a, b) == (2 * a + b) \div (2 * b)

\* A product as its pre-save hook leaves it: the discount fields follow
\* from price and sellingPrice, and are zero unless price > sellingPrice.
productDoc(price, sellingPrice, inventory) ==
  [price |-> price, sellingPrice |-> sellingPrice, inventory |-> inventory,
   discountAmount |-> IF price > sellingPrice THEN price - sellingPrice
                      ELSE 0,
   discountPercentage |-> IF price > sellingPrice
                          THEN RoundDiv((price - sellingPrice) * 100, price)
                          ELSE 0]

\* A coupon or an offer document, as far as pricing reads it.
discountDoc(store, products, type, amt, pct, maxDiscount) ==
  [store |-> store, isActive |-> TRUE, products |-> products,
   isDeleted |-> FALSE, type |-> type, discountAmt |-> amt,
   discountPercentage |-> pct, maxDiscount |-> maxDiscount]

\* String.prototype.toUpperCase on the coupon codes in use.
toUpperCase(code) ==
  CASE code = "save" -> "SAVE"
    [] code = "nope" -> "NOPE"
    [] OTHER -> code

\* Coupon.findById and Offer.findById: the find hooks hide soft-deleted
\* documents, and a null reference finds nothing.
CouponById(id) ==
  {catalog.coupons[i] : i \in {j \in DOMAIN catalog.coupons :
                                 j = id /\ ~catalog.coupons[j].isDeleted}}
OfferById(id) ==
  {offers[i] : i \in {j \in DOMAIN offers : j = id /\ ~offers[j].isDeleted}}

\* A percentage discount that ignores maxDiscount.
discountValue_uncapped(d, sellingPrice) ==
  IF d.type = "percentage"
  THEN (sellingPrice * d.discountPercentage) \div 100
  ELSE d.discountAmt

\* The discount one coupon or offer takes off a selling price.
discountValue(d, sellingPrice) ==
  IF d.type = "percentage"
  THEN LET byPct == (sellingPrice * d.discountPercentage) \div 100
       IN IF d.maxDiscount = 0 THEN byPct ELSE Min2(byPct, d.maxDiscount)
  ELSE d.discountAmt

discountPct(d, sellingPrice) ==
  IF d.type = "percentage" THEN d.discountPercentage
  ELSE RoundDiv(d.discountAmt * 100, sellingPrice)

\* The coupons or offers among ds that apply to a product.
applicable(ds, product) ==
  {d \in ds : d.isActive /\ (product \in d.products \/ d.products = {})}

\* One round of the loop of calculateItemPrices.
priceItem(item, offerDetails, couponDetails) ==
  IF item.product \notin DOMAIN catalog.products THEN item
  ELSE
    LET product == catalog.products[item.product]
        od == applicable(offerDetails, item.product)
        cd == applicable(couponDetails, item.product)
        offerDiscount ==
          IF od = {} THEN 0
          ELSE discountValue(CHOOSE d \in od : TRUE, product.sellingPrice)
        couponDiscount ==
          IF cd = {} THEN 0
          ELSE discountValue(CHOOSE d \in cd : TRUE, product.sellingPrice)
    IN [product |-> item.product,
        quantity |-> item.quantity,
        price |-> product.price,
        discountAmt |-> product.discountAmount,
        discountPercentage |-> product.discountPercentage,
        offerDiscount |-> offerDiscount,
        offerDiscountPercentage |->
          IF od = {} THEN 0
          ELSE discountPct(CHOOSE d \in od : TRUE, product.sellingPrice),
        couponDiscount |-> couponDiscount,
        couponDiscountPercentage |->
          IF cd = {} THEN 0
          ELSE discountPct(CHOOSE d \in cd : TRUE, product.sellingPrice),
        effectivePrice |->
          Max2(0, product.sellingPrice - offerDiscount - couponDiscount)]

calculateItemPrices(cart) ==
  [cart EXCEPT !.items =
     [i \in DOMAIN cart.items |->
        priceItem(cart.items[i], OfferById(cart.offer),
                  CouponById(cart.coupon))]]

\* The line addItemToCart pushes; its prices wait for the pre-save hook.
newItem(product, quantity) ==
  [product |-> product, quantity |-> quantity, price |-> 0,
   discountAmt |-> 0, discountPercentage |-> 0, offerDiscount |-> 0,
   offerDiscountPercentage |-> 0, couponDiscount |-> 0,
   couponDiscountPercentage |-> 0, effectivePrice |-> 0]

\* Cart.create({user, store, items: []}) with the schema defaults.
newCart(user, store) ==
  [user |-> user, store |-> store, items |-> <<>>, coupon |-> NoId,
   offer |-> NoId, state |-> "active", isDeleted |-> FALSE]

\* items.findIndex(item => item.product === product), 0 for -1.
itemIndex(items, product) ==
  IF \E i \in DOMAIN items : items[i].product = product
  THEN CHOOSE i \in DOMAIN items :
         /\ items[i].product = product
         /\ \A j \in DOMAIN items : items[j].product = product => i <= j
  ELSE 0

\* items.splice(i, 1)
splice(items, i) ==
  [j \in 1..(Len(items) - 1) |-> IF j < i THEN items[j] ELSE items[j + 1]]

\* Cart.findOne({user, state: "active", isDeleted: false}): the query has
\* no sort, so any matching cart may be the one returned.
activeCarts(user) ==
  {c \in DOMAIN carts :
     /\ carts[c].user = user
     /\ carts[c].state = "active"
     /\ ~carts[c].isDeleted}

activeCartsOf(user, store) ==
  {c \in activeCarts(user) : carts[c].store = store}

CartIdle == [pc |-> "idle", cart |-> NoId, doc |-> newCart("u1", "s1"),
             mod |-> {}, product |-> "p1", quantity |-> 1]

cartFrame ==
  UNCHANGED <<snapshots, orders, payments, trackings, offers, payouts,
              catalog, gateway, payoutReq, offerReq, orderReq,
              paymentReq, env>>

\* A handler that has read its cart and changed the copy in memory now
\* awaits cart.save().
toSave(r, c, doc, mod) ==
  cartReq' = [cartReq EXCEPT ![r] =
                [pc |-> "save", cart |-> c, doc |-> doc, mod |-> mod,
                 product |-> @.product, quantity |-> @.quantity]]

\* addItemToCart's change to the cart it holds: set the quantity of the
\* product's line, or push a new line.
withItem(doc, product, quantity) ==
  LET i == itemIndex(doc.items, product)
  IN IF i # 0
     THEN [doc EXCEPT !.items[i].quantity = quantity]
     ELSE [doc EXCEPT !.items = Append(@, newItem(product, quantity))]

\* addItemToCart up to Cart.findOne: the store, product and inventory
\* checks, then the lookup of the user's active cart for the store.
addItemFind(r, user, store, product, quantity) ==
  /\ cartReq[r].pc = "idle"
  /\ IF \/ store \notin Stores
        \/ product \notin DOMAIN catalog.products
        \/ ProductStore(product) # store
        \/ catalog.products[product].inventory < quantity
     THEN UNCHANGED cartReq
     ELSE IF activeCartsOf(user, store) = {}
          THEN /\ Len(carts) + Cardinality({q \in DOMAIN cartReq :
                                              cartReq[q].pc = "create"})
                    < MaxCarts
               /\ cartReq' = [cartReq EXCEPT ![r] =
                    [pc |-> "create", cart |-> NoId,
                     doc |-> newCart(user, store), mod |-> {},
                     product |-> product, quantity |-> quantity]]
          ELSE \E c \in activeCartsOf(user, store) :
                 cartReq' = [cartReq EXCEPT ![r] =
                    [pc |-> "save", cart |-> c,
                     doc |-> withItem(carts[c], product, quantity),
                     mod |-> {"items"},
                     product |-> product, quantity |-> quantity]]
  /\ UNCHANGED carts
  /\ cartFrame

\* Cart.create on a collection without the unique index: the insert always
\* goes through.
addItemCreate_noIndex(r) ==
  /\ cartReq[r].pc = "create"
  /\ carts' = Append(carts, cartReq[r].doc)
  /\ cartReq' = [cartReq EXCEPT ![r] =
       [pc |-> "save", cart |-> Len(carts) + 1,
        doc |-> withItem(@.doc, @.product, @.quantity),
        mod |-> {"items"},
        product |-> @.product, quantity |-> @.quantity]]
  /\ cartFrame

\* Cart.create: the insert fails on the unique index when the user already
\* has an active cart for the store, and the request ends in an error.
addItemCreate(r) ==
  /\ cartReq[r].pc = "create"
  /\ LET doc == cartReq[r].doc
     IN IF activeCartsOf(doc.user, doc.store) # {}
        THEN /\ cartReq' = [cartReq EXCEPT ![r] = CartIdle]
             /\ UNCHANGED carts
        ELSE /\ carts' = Append(carts, doc)
             /\ cartReq' = [cartReq EXCEPT ![r] =
                  [pc |-> "save", cart |-> Len(carts) + 1,
                   doc |-> withItem(doc, @.product, @.quantity),
                   mod |-> {"items"},
                   product |-> @.product, quantity |-> @.quantity]]
  /\ cartFrame

addItemToCart(r) ==
  \/ \E user \in Users, store \in Stores \cup {"s9"}, product \in Products,
        quantity \in Quantities :
       addItemFind(r, user, store, product, quantity)
  \/ addItemCreate(r)

removeItemFromCart(r) ==
  \E user \in Users, product \in Products :
    /\ cartReq[r].pc = "idle"
    /\ IF activeCarts(user) = {}
       THEN UNCHANGED cartReq
       ELSE \E c \in activeCarts(user) :
              LET i == itemIndex(carts[c].items, product)
                  items == splice(carts[c].items, i)
              IN IF i = 0
                 THEN UNCHANGED cartReq
                 ELSE IF items = <<>>
                      THEN toSave(r, c, [carts[c] EXCEPT !.items = items,
                                                         !.isDeleted = TRUE],
                                  {"items", "isDeleted"})
                      ELSE toSave(r, c, [carts[c] EXCEPT !.items = items],
                                  {"items"})
    /\ UNCHANGED carts
    /\ cartFrame

updateProductQuantity(r) ==
  \E user \in Users, product \in Products, quantity \in Quantities :
    /\ cartReq[r].pc = "idle"
    /\ IF activeCarts(user) = {}
       THEN UNCHANGED cartReq
       ELSE \E c \in activeCarts(user) :
              LET i == itemIndex(carts[c].items, product)
              IN IF \/ i = 0
                    \/ product \notin DOMAIN catalog.products
                    \/ catalog.products[product].inventory < quantity
                 THEN UNCHANGED cartReq
                 ELSE toSave(r, c,
                             [carts[c] EXCEPT !.items[i].quantity = quantity],
                             IF carts[c].items[i].quantity = quantity
                             THEN {} ELSE {"items"})
    /\ UNCHANGED carts
    /\ cartFrame

clearCart(r) ==
  \E user \in Users :
    /\ cartReq[r].pc = "idle"
    /\ IF activeCarts(user) = {}
       THEN UNCHANGED cartReq
       ELSE \E c \in activeCarts(user) :
              toSave(r, c, [carts[c] EXCEPT !.isDeleted = TRUE],
                     {"isDeleted"})
    /\ UNCHANGED carts
    /\ cartFrame

applyCoupon(r) ==
  \E user \in Users, couponCode \in {"save", "nope"} :
    /\ cartReq[r].pc = "idle"
    /\ IF activeCarts(user) = {}
       THEN UNCHANGED cartReq
       ELSE \E c \in activeCarts(user) :
              LET found == {i \in DOMAIN catalog.coupons :
                              /\ catalog.coupons[i].code
                                   = toUpperCase(couponCode)
                              /\ catalog.coupons[i].store = carts[c].store
                              /\ catalog.coupons[i].isActive
                              /\ ~catalog.coupons[i].isDeleted}
              IN IF found = {}
                 THEN UNCHANGED cartReq
                 ELSE \E id \in found :
                        toSave(r, c, [carts[c] EXCEPT !.coupon = id],
                               IF carts[c].coupon = id
                               THEN {} ELSE {"coupon"})
    /\ UNCHANGED carts
    /\ cartFrame

applyOffer(r) ==
  \E user \in Users, offerId \in 1..MaxOffers :
    /\ cartReq[r].pc = "idle"
    /\ IF activeCarts(user) = {}
       THEN UNCHANGED cartReq
       ELSE \E c \in activeCarts(user) :
              IF \/ offerId \notin DOMAIN offers
                 \/ offers[offerId].store # carts[c].store
                 \/ ~offers[offerId].isActive
                 \/ offers[offerId].isDeleted
              THEN UNCHANGED cartReq
              ELSE toSave(r, c, [carts[c] EXCEPT !.offer = offerId],
                          IF carts[c].offer = offerId
                          THEN {} ELSE {"offer"})
    /\ UNCHANGED carts
    /\ cartFrame

removeCoupon(r) ==
  \E user \in Users :
    /\ cartReq[r].pc = "idle"
    /\ IF activeCarts(user) = {}
       THEN UNCHANGED cartReq
       ELSE \E c \in activeCarts(user) :
              toSave(r, c, [carts[c] EXCEPT !.coupon = NoId],
                     IF carts[c].coupon = NoId THEN {} ELSE {"coupon"})
    /\ UNCHANGED carts
    /\ cartFrame

removeOffer(r) ==
  \E user \in Users :
    /\ cartReq[r].pc = "idle"
    /\ IF activeCarts(user) = {}
       THEN UNCHANGED cartReq
       ELSE \E c \in activeCarts(user) :
              toSave(r, c, [carts[c] EXCEPT !.offer = NoId],
                     IF carts[c].offer = NoId THEN {} ELSE {"offer"})
    /\ UNCHANGED carts
    /\ cartFrame

\* cart.save(): the pre-save hook reprices the lines when items, coupon or
\* offer were modified, and the update writes the modified paths to the
\* stored document of the cart's _id.
cartSave(r) ==
  /\ cartReq[r].pc = "save"
  /\ LET c == cartReq[r].cart
         mod == cartReq[r].mod
         reprice == mod \cap {"items", "coupon", "offer"} # {}
         doc == IF reprice THEN calculateItemPrices(cartReq[r].doc)
                ELSE cartReq[r].doc
     IN carts' = [carts EXCEPT ![c] =
          [@ EXCEPT !.items = IF reprice THEN doc.items ELSE @,
                    !.coupon = IF "coupon" \in mod THEN doc.coupon ELSE @,
                    !.offer = IF "offer" \in mod THEN doc.offer ELSE @,
                    !.isDeleted = IF "isDeleted" \in mod THEN doc.isDeleted
                                  ELSE @]]
  /\ cartReq' = [cartReq EXCEPT ![r] = CartIdle]
  /\ cartFrame

\* cart.save() rejects (a version conflict with another writer of the
\* lines, or a lost connection) and the request ends in an error.
cartSaveFails(r) ==
  /\ cartReq[r].pc = "save"
  /\ cartReq' = [cartReq EXCEPT ![r] = CartIdle]
  /\ UNCHANGED carts
  /\ cartFrame

\* Prices and discounts the models accept: price and sellingPrice are any
\* amounts from 0 up, in either order; a percentage discount lies in
\* 1..100 with or without a cap; an amount discount is positive.
PriceConfigs == {<<20000, 10000>>, <<10000, 20000>>}
DiscountConfigs ==
  {<<"percentage", 0, 10, 0>>, <<"percentage", 0, 50, 2000>>,
   <<"amount", 15000, 0, 0>>}

catalogOf(p1) ==
  [p \in Products |->
     CASE p = "p1" -> productDoc(p1[1], p1[2], 2)
       [] p = "p2" -> productDoc(10000, 10000, 1)
       [] OTHER -> productDoc(30000, 20000, 2)]

couponOf(d, products) ==
  discountDoc("s1", products, d[1], d[2], d[3], d[4]) @@ [code |-> "SAVE"]

cartOthersInit ==
  /\ snapshots = <<>> /\ orders = <<>> /\ payments = <<>>
  /\ trackings = <<>> /\ payouts = <<>> /\ gateway = <<>>
  /\ payoutReq = <<>> /\ offerReq = <<>> /\ orderReq = <<>>
  /\ paymentReq = <<>> /\ env = <<>>

\* One cart request at a time, against every catalog of the configurations.
CartInit ==
  /\ carts = <<>>
  /\ \E p1 \in PriceConfigs, c \in DiscountConfigs, o \in DiscountConfigs :
       /\ catalog = [products |-> catalogOf(p1),
                     coupons |-> <<couponOf(c, {})>>]
       /\ offers = <<discountDoc("s1", {"p1"}, o[1], o[2], o[3], o[4])>>
  /\ cartReq = [r \in {"c1"} |-> CartIdle]
  /\ cartOthersInit

CartNext ==
  \E r \in {"c1"} :
    \/ addItemToCart(r)
    \/ removeItemFromCart(r)
    \/ updateProductQuantity(r)
    \/ clearCart(r)
    \/ applyCoupon(r)
    \/ applyOffer(r)
    \/ removeCoupon(r)
    \/ removeOffer(r)
    \/ cartSave(r)
    \/ cartSaveFails(r)

SpecCart == CartInit /\ [][CartNext]_vars

\* C8: after every cart mutation each line's effectivePrice lies between 0
\* and the line's price, whatever products, offer and coupon the models
\* accept.
C8_EffectivePriceWithinPrice ==
  \A c \in DOMAIN carts : \A i \in DOMAIN carts[c].items :
    /\ 0 <= carts[c].items[i].effectivePrice
    /\ carts[c].items[i].effectivePrice <= carts[c].items[i].price

\* Two cart requests in flight against a catalog of one product per store;
\* the calls that open and close carts.
CartRaceInit ==
  /\ carts = <<>>
  /\ catalog = [products |-> [p \in {"p1", "p3"} |->
                                catalogOf(<<20000, 10000>>)[p]],
                coupons |-> <<couponOf(<<"percentage", 0, 10, 0>>, {})>>]
  /\ offers = <<discountDoc("s1", {}, "percentage", 0, 10, 0)>>
  /\ cartReq = [r \in CartReqs |-> CartIdle]
  /\ cartOthersInit

CartRaceNext ==
  \E r \in CartReqs :
    \/ addItemToCart(r)
    \/ removeItemFromCart(r)
    \/ clearCart(r)
    \/ cartSave(r)
    \/ cartSaveFails(r)

SpecCartRace == CartRaceInit /\ [][CartRaceNext]_vars

\* C10: a user has at most one active, non-deleted cart per store, after
\* any interleaving of addItemToCart calls.
C10_OneActiveCartPerUserStore ==
  \A u \in Users, s \in Stores : Cardinality(activeCartsOf(u, s)) <= 1

\* Two requests found no cart for the same user and store; one has created
\* it and the other is about to call Cart.create.
C10_Witness ==
  \E r \in CartReqs :
    /\ cartReq[r].pc = "create"
    /\ activeCartsOf(cartReq[r].doc.user, cartReq[r].doc.store) # {}

(***************************************************************************)
(* Checkout                                                                *)
(***************************************************************************)
MaxGatewayOrders == 2
OrderReqs == {"k1", "k2"}
PaymentTypes == {"cod", "upi"}

\* What a createOrder transaction has written under its session and not
\* yet committed.
NoWrites ==
  [snapshots |-> <<>>, orders |-> <<>>, trackings |-> <<>>,
   payments |-> <<>>]

\* A createOrder request between calls; status is its last response (0
\* before the first) and error the step a 500 came from.
OrderIdle ==
  [pc |-> "idle", status |-> 0, error |-> "", user |-> "u1",
   cartId |-> NoId, read |-> newCart("u1", "s1"),
   cart |-> newCart("u1", "s1"), paymentType |-> "cod",
   staged |-> NoWrites]

\* abortTransaction (or an early return) and the response.
respond(r, status, error) ==
  orderReq' = [orderReq EXCEPT ![r] =
                 [OrderIdle EXCEPT !.status = status, !.error = error]]

\* sum over the cart's lines of f(line) * quantity
lineTotal(items, field) ==
  SumSeq([i \in DOMAIN items |-> items[i][field] * items[i].quantity])

deliveryCharges == 0

\* The CartSnapshot createOrder builds from the repriced cart.
snapshotOf(cartId, cart) ==
  [originalCartId |-> cartId, user |-> cart.user, store |-> cart.store,
   items |-> cart.items, coupon |-> cart.coupon, offer |-> cart.offer,
   totalAmount |-> lineTotal(cart.items, "price"),
   totalDiscount |-> lineTotal(cart.items, "discountAmt"),
   couponDiscount |-> lineTotal(cart.items, "couponDiscount"),
   offerDiscount |-> lineTotal(cart.items, "offerDiscount"),
   deliveryCharges |-> deliveryCharges,
   payableAmount |-> lineTotal(cart.items, "effectivePrice")
                       + deliveryCharges]

orderItem(item) ==
  [product |-> item.product, quantity |-> item.quantity,
   price |-> item.price, discountedPrice |-> item.effectivePrice,
   totalPrice |-> item.effectivePrice * item.quantity,
   status |-> "active", cancelledAt |-> FALSE, cancelReason |-> ""]

\* The Order createOrder builds; the references to the snapshot, the
\* tracking and the payment are filled in as those documents get their
\* _id.
orderOf(cart, snapshot, paymentType, orderNumber) ==
  [orderNumber |-> orderNumber, cartSnapshot |-> NoId,
   user |-> cart.user, store |-> cart.store,
   items |-> [i \in DOMAIN cart.items |-> orderItem(cart.items[i])],
   paymentType |-> paymentType, paymentStatus |-> "pending",
   paymentId |-> NoId,
   totalWithoutDiscount |-> snapshot.totalAmount,
   totalPayableAmount |-> snapshot.payableAmount,
   totalDiscount |-> snapshot.totalDiscount,
   couponDiscount |-> snapshot.couponDiscount,
   offerDiscount |-> snapshot.offerDiscount,
   coupon |-> cart.coupon, offer |-> cart.offer,
   deliveryCharges |-> snapshot.deliveryCharges,
   orderStatus |-> "pending", deliveryTrackingId |-> NoId,
   cancelledAt |-> FALSE, cancelReason |-> ""]

trackingOf ==
  [order |-> NoId, currentStatus |-> "pending",
   statusUpdates |-> <<"pending">>]

\* A Payment that does not keep the id of the gateway order.
paymentOf_noIntent(user, amount, razorpayOrderId, paymentMethod) ==
  [user |-> user, order |-> NoId, amount |-> amount,
   razorpayOrderId |-> NoId, razorpayPaymentId |-> NoId,
   razorpaySignature |-> <<>>, paymentMethod |-> paymentMethod,
   status |-> "pending", paymentResponse |-> "",
   refundAmount |-> 0, refundId |-> NoId, refundStatus |-> ""]

paymentOf(user, amount, razorpayOrderId, paymentMethod) ==
  [user |-> user, order |-> NoId, amount |-> amount,
   razorpayOrderId |-> razorpayOrderId, razorpayPaymentId |-> NoId,
   razorpaySignature |-> <<>>, paymentMethod |-> paymentMethod,
   status |-> "pending", paymentResponse |-> "",
   refundAmount |-> 0, refundId |-> NoId, refundStatus |-> ""]

checkoutFrame ==
  UNCHANGED <<offers, payouts, catalog, payoutReq, offerReq, cartReq,
              paymentReq, env>>

\* createOrder up to calculateItemPrices: the transaction starts, the cart
\* is read (it must be the user's, active and not soft-deleted), the
\* address is looked up and the lines are repriced in memory.
coBegin(r, user, cartId, paymentType, addressFound) ==
  /\ orderReq[r].pc = "idle"
  /\ IF ~(/\ cartId \in DOMAIN carts
          /\ carts[cartId].user = user
          /\ carts[cartId].state = "active"
          /\ ~carts[cartId].isDeleted)
     THEN respond(r, 404, "")
     ELSE IF ~addressFound
          THEN respond(r, 404, "")
          ELSE orderReq' = [orderReq EXCEPT ![r] =
                 [pc |-> "snapshot", status |-> 0, error |-> "",
                  user |-> user, cartId |-> cartId, read |-> carts[cartId],
                  cart |-> calculateItemPrices(carts[cartId]),
                  paymentType |-> paymentType, staged |-> NoWrites]]
  /\ UNCHANGED <<carts, snapshots, orders, payments, trackings, gateway>>
  /\ checkoutFrame

\* cartSnapshot.save({session})
coSnapshot(r) ==
  /\ orderReq[r].pc = "snapshot"
  /\ orderReq' = [orderReq EXCEPT
       ![r].pc = "order",
       ![r].staged.snapshots = <<snapshotOf(orderReq[r].cartId,
                                            orderReq[r].cart)>>]
  /\ UNCHANGED <<carts, snapshots, orders, payments, trackings, gateway>>
  /\ checkoutFrame

\* The order numbers taken by a committed order or by an order another
\* transaction has inserted.
orderNumbersTaken(r) ==
  {orders[o].orderNumber : o \in DOMAIN orders}
    \cup UNION {{orderReq[q].staged.orders[i].orderNumber :
                   i \in DOMAIN orderReq[q].staged.orders} :
                q \in DOMAIN orderReq \ {r}}

\* order.save({session}) with its pre-save hook, deliveryTracking.save and
\* the second order.save.  The hook numbers the order count + 1 from the
\* committed orders; the unique index on orderNumber refuses a number that
\* is taken.  The post-save hook sees isNew false and does nothing.
coOrder(r) ==
  /\ orderReq[r].pc = "order"
  /\ LET q == orderReq[r]
         orderNumber == Len(orders) + 1
     IN IF orderNumber \in orderNumbersTaken(r)
        THEN respond(r, 500, "duplicate key")
        ELSE orderReq' = [orderReq EXCEPT
               ![r].pc = IF q.paymentType = "cod" THEN "commit"
                         ELSE "payment",
               ![r].staged.orders =
                  <<orderOf(q.cart, q.staged.snapshots[1], q.paymentType,
                            orderNumber)>>,
               ![r].staged.trackings = <<trackingOf>>]
  /\ UNCHANGED <<carts, snapshots, orders, payments, trackings, gateway>>
  /\ checkoutFrame

\* razorpayInstance.orders.create, then payment.save({session}) and the
\* third order.save.  The gateway's order outlives an abort.
coPayment(r) ==
  /\ orderReq[r].pc = "payment"
  /\ Len(gateway.orders) < MaxGatewayOrders
  /\ LET q == orderReq[r]
         amount == q.staged.snapshots[1].payableAmount
     IN /\ gateway' = [gateway EXCEPT !.orders =
                         Append(@, [amount |-> amount,
                                    receipt |-> q.staged.orders[1].orderNumber])]
        /\ orderReq' = [orderReq EXCEPT
             ![r].pc = "commit",
             ![r].staged.payments =
                <<paymentOf(q.user, amount, Len(gateway.orders) + 1,
                            q.paymentType)>>]
  /\ UNCHANGED <<carts, snapshots, orders, payments, trackings>>
  /\ checkoutFrame

\* The transaction's documents once their _id and references are known.
committedOrder(q) ==
  [q.staged.orders[1] EXCEPT
     !.cartSnapshot = Len(snapshots) + 1,
     !.deliveryTrackingId = Len(trackings) + 1,
     !.paymentId = IF q.staged.payments = <<>> THEN NoId
                   ELSE Len(payments) + 1]

\* cart.save({session}) and commitTransaction.  The cart write conflicts
\* when the stored cart is no longer the one the transaction read, and
\* the transaction aborts; otherwise everything written under the session
\* becomes visible at once.
coCommit(r) ==
  /\ orderReq[r].pc = "commit"
  /\ LET q == orderReq[r]
     IN IF carts[q.cartId] # q.read
        THEN /\ respond(r, 500, "commit")
             /\ UNCHANGED <<carts, snapshots, orders, payments, trackings>>
        ELSE /\ snapshots' = snapshots \o q.staged.snapshots
             /\ orders' = Append(orders, committedOrder(q))
             /\ trackings' = Append(trackings,
                  [q.staged.trackings[1] EXCEPT !.order = Len(orders) + 1])
             /\ payments' = payments \o
                  [i \in DOMAIN q.staged.payments |->
                     [q.staged.payments[i] EXCEPT !.order = Len(orders) + 1]]
             /\ carts' = [carts EXCEPT ![q.cartId] =
                  [@ EXCEPT !.state = "consumed", !.items = q.cart.items]]
             /\ respond(r, 201, "")
  /\ UNCHANGED gateway
  /\ checkoutFrame

\* A failing step whose snapshot was saved without the session: the abort
\* does not take the snapshot back.
coFail_noSession(r) ==
  /\ orderReq[r].pc \in {"snapshot", "order", "payment", "commit"}
  /\ respond(r, 500, orderReq[r].pc)
  /\ snapshots' = snapshots \o orderReq[r].staged.snapshots
  /\ UNCHANGED <<carts, orders, payments, trackings, gateway>>
  /\ checkoutFrame

\* Any awaited step of the try block throws: the catch aborts the
\* transaction and answers 500 with the error of the step.
coFail(r) ==
  /\ orderReq[r].pc \in {"snapshot", "order", "payment", "commit"}
  /\ respond(r, 500, orderReq[r].pc)
  /\ UNCHANGED <<carts, snapshots, orders, payments, trackings, gateway>>
  /\ checkoutFrame

createOrder(r) ==
  \/ \E user \in Users, cartId \in 1..(Len(carts) + 1),
        paymentType \in PaymentTypes, addressFound \in BOOLEAN :
       coBegin(r, user, cartId, paymentType, addressFound)
  \/ coSnapshot(r)
  \/ coOrder(r)
  \/ coPayment(r)
  \/ coCommit(r)
  \/ coFail(r)

\* A store with its catalog, and the cart a user has filled there.
shopCatalog ==
  [products |-> catalogOf(<<20000, 10000>>),
   coupons |-> <<couponOf(<<"percentage", 0, 10, 0>>, {})>>]
shopOffers == <<discountDoc("s1", {"p1"}, "percentage", 0, 10, 0)>>
filledCartOf(quantity) ==
  calculateItemPrices(
    [newCart("u1", "s1") EXCEPT
       !.items = <<newItem("p1", quantity), newItem("p2", 1)>>,
       !.offer = 1])
filledCart == filledCartOf(1)

CheckoutInit ==
  /\ catalog = shopCatalog
  /\ offers = shopOffers
  /\ carts = <<filledCart>>
  /\ snapshots = <<>> /\ orders = <<>> /\ payments = <<>>
  /\ trackings = <<>> /\ payouts = <<>>
  /\ gateway = [orders |-> <<>>, refunds |-> <<>>]
  /\ orderReq = [r \in OrderReqs |-> OrderIdle]
  /\ cartReq = [r \in {"c1"} |-> CartIdle]
  /\ payoutReq = <<>> /\ offerReq = <<>>
  /\ paymentReq = <<>> /\ env = <<>>

\* Two createOrder requests and one cart request in flight.
CheckoutNext ==
  \/ \E r \in OrderReqs : createOrder(r)
  \/ \E r \in {"c1"} :
       \/ removeItemFromCart(r)
       \/ clearCart(r)
       \/ cartSave(r)
       \/ cartSaveFails(r)

SpecCheckout == CheckoutInit /\ [][CheckoutNext]_vars

snapshotsOfCart(c) ==
  {s \in DOMAIN snapshots : snapshots[s].originalCartId = c}
ordersOfCart(c) ==
  {o \in DOMAIN orders : orders[o].cartSnapshot \in snapshotsOfCart(c)}

\* A consumed cart has exactly one snapshot and one order, any other cart
\* has none.
oneOrderPerCheckout ==
  \A c \in DOMAIN carts :
    IF carts[c].state = "consumed"
    THEN Cardinality(snapshotsOfCart(c)) = 1
         /\ Cardinality(ordersOfCart(c)) = 1
    ELSE snapshotsOfCart(c) = {} /\ ordersOfCart(c) = {}

checkoutsWhole ==
  /\ \A o \in DOMAIN orders :
       /\ orders[o].cartSnapshot \in DOMAIN snapshots
       /\ orders[o].deliveryTrackingId \in DOMAIN trackings
       /\ trackings[orders[o].deliveryTrackingId].order = o
       /\ IF orders[o].paymentType = "cod" THEN orders[o].paymentId = NoId
          ELSE /\ orders[o].paymentId \in DOMAIN payments
               /\ payments[orders[o].paymentId].order = o
  /\ \A s \in DOMAIN snapshots :
       Cardinality({o \in DOMAIN orders : orders[o].cartSnapshot = s}) = 1
  /\ \A t \in DOMAIN trackings :
       trackings[t].order \in DOMAIN orders
       /\ orders[trackings[t].order].deliveryTrackingId = t
  /\ \A p \in DOMAIN payments :
       payments[p].order \in DOMAIN orders
       /\ orders[payments[p].order].paymentId = p
  /\ \A c \in DOMAIN carts :
       ordersOfCart(c) = {} => carts[c].state = "active"

\* C5: when a step of createOrder fails after the snapshot is written, no
\* CartSnapshot, Order, DeliveryTracking or Payment of the checkout
\* persists and the cart stays as it was; an Order never exists without
\* its Snapshot nor a Snapshot without its Order.
C5_FailedCheckoutLeavesNothing ==
  /\ []checkoutsWhole
  /\ [][\A r \in OrderReqs :
          (orderReq[r].pc \in {"order", "payment", "commit"}
             /\ orderReq'[r].status = 500)
          => UNCHANGED <<carts, snapshots, orders, trackings, payments>>]_vars

\* A checkout failed after its snapshot was written, and its cart is
\* still active.
C5_Witness ==
  \E r \in OrderReqs :
    /\ orderReq[r].pc = "idle"
    /\ orderReq[r].status = 500
    /\ orderReq[r].error \in {"order", "payment", "commit"}
    /\ \E c \in DOMAIN carts :
         carts[c].state = "active" /\ ~carts[c].isDeleted
         /\ snapshotsOfCart(c) = {}

(***************************************************************************)
(* Payment reconciliation and the order life cycle                         *)
(***************************************************************************)
MaxUpdates == 3
MaxRefunds == 1
\* The gateway's payment attempts: 11 and 12 pay gateway order 1, 21 pays
\* gateway order 2.
GatewayPayments == {11, 12, 21}
payOrder(razorpayPaymentId) == razorpayPaymentId \div 10
\* HMAC-SHA256 of "order|payment" under the key secret: one value per pair,
\* which only the gateway and the server can compute.
Hmac(razorpayOrderId, razorpayPaymentId) ==
  <<razorpayOrderId, razorpayPaymentId>>
\* The signatures a client can send with a payment id: the one the gateway
\* handed out for the payment, and a made-up one.
Signatures(razorpayPaymentId) ==
  {Hmac(payOrder(razorpayPaymentId), razorpayPaymentId), <<0, 0>>}
OrderStatuses ==
  {"pending", "confirmed", "processing", "shipped", "delivered",
   "cancelled", "returned", "partially_cancelled", "partially_returned"}
Reasons == {"changed mind"}

\* The collections the payment and order handlers read and write in one
\* transaction.
db == [payments |-> payments, orders |-> orders, trackings |-> trackings]

commit(d) ==
  /\ payments' = d.payments
  /\ orders' = d.orders
  /\ trackings' = d.trackings

orderFrame ==
  UNCHANGED <<carts, snapshots, offers, payouts, catalog, payoutReq,
              offerReq, cartReq, orderReq,
              paymentReq, env>>

paymentsByOrderId(d, razorpayOrderId) ==
  {p \in DOMAIN d.payments :
     d.payments[p].razorpayOrderId = razorpayOrderId}
paymentsByPaymentId(d, razorpayPaymentId) ==
  {p \in DOMAIN d.payments :
     d.payments[p].razorpayPaymentId = razorpayPaymentId}

\* The tracking document a handler is about to push to still has room.
canPush(d, o) ==
  (o \in DOMAIN d.orders /\ d.orders[o].deliveryTrackingId \in DOMAIN d.trackings)
    => Len(d.trackings[d.orders[o].deliveryTrackingId].statusUpdates)
         < MaxUpdates

\* statusUpdates.push({status}), and currentStatus when the handler sets it.
pushUpdate(d, o, status, current) ==
  LET t == d.orders[o].deliveryTrackingId
  IN IF t \notin DOMAIN d.trackings THEN d
     ELSE [d EXCEPT !.trackings[t].statusUpdates = Append(@, status),
                    !.trackings[t].currentStatus = current]

\* What verifyPayment and handlePaymentCaptured do to the order of a
\* captured payment.
orderCaptured(d, o) ==
  IF o \notin DOMAIN d.orders THEN d
  ELSE pushUpdate(
         [d EXCEPT !.orders[o].paymentStatus = "captured",
                   !.orders[o].orderStatus =
                      IF @ = "pending" THEN "confirmed" ELSE @],
         o, "processing", "processing")

\* A verification that confirms the order whatever its status was.
verifiedOn_confirming(d, p, razorpayPaymentId, razorpaySignature) ==
  LET o == d.payments[p].order
      e == [d EXCEPT !.payments[p].razorpayPaymentId = razorpayPaymentId,
                     !.payments[p].razorpaySignature = razorpaySignature,
                     !.payments[p].status = "captured"]
  IN IF o \notin DOMAIN e.orders THEN e
     ELSE pushUpdate([e EXCEPT !.orders[o].paymentStatus = "captured",
                               !.orders[o].orderStatus = "confirmed"],
                     o, "processing", "processing")

\* verifyPayment on the payment record p found by the Razorpay order id.
verifiedOn(d, p, razorpayPaymentId, razorpaySignature) ==
  orderCaptured(
    [d EXCEPT !.payments[p].razorpayPaymentId = razorpayPaymentId,
              !.payments[p].razorpaySignature = razorpaySignature,
              !.payments[p].status = "captured"],
    d.payments[p].order)

\* verifyPayment(req.body): the response status and the database it
\* leaves, for each record Payment.findOne may return.
verifyPaymentOn(d, razorpayOrderId, razorpayPaymentId, razorpaySignature) ==
  IF razorpaySignature # Hmac(razorpayOrderId, razorpayPaymentId)
  THEN {[status |-> 400, payment |-> NoId, db |-> d]}
  ELSE IF paymentsByOrderId(d, razorpayOrderId) = {}
  THEN {[status |-> 404, payment |-> NoId, db |-> d]}
  ELSE {[status |-> 200, payment |-> p,
         db |-> verifiedOn(d, p, razorpayPaymentId, razorpaySignature)] :
          p \in paymentsByOrderId(d, razorpayOrderId)}

verifyPayment ==
  \E razorpayOrderId \in 1..MaxGatewayOrders,
     razorpayPaymentId \in GatewayPayments :
  \E razorpaySignature \in Signatures(razorpayPaymentId) :
  \E out \in verifyPaymentOn(db, razorpayOrderId, razorpayPaymentId,
                             razorpaySignature) :
    /\ out.status = 200 => canPush(db, payments[out.payment].order)
    /\ commit(out.db)
    /\ UNCHANGED gateway
    /\ orderFrame

\* handlePaymentAuthorized on the record p found by the order id.
authorizedOn(d, p, razorpayPaymentId) ==
  [d EXCEPT !.payments[p].razorpayPaymentId = razorpayPaymentId,
            !.payments[p].status = "authorized",
            !.payments[p].paymentResponse = "authorized"]

\* A handler that advances the order one more step on every delivery of
\* the event.
capturedOn_advancing(d, p) ==
  LET o == d.payments[p].order
      e == [d EXCEPT !.payments[p].status = "captured",
                     !.payments[p].paymentResponse = "captured"]
  IN IF o \notin DOMAIN e.orders THEN e
     ELSE pushUpdate(
            [e EXCEPT !.orders[o].paymentStatus = "captured",
                      !.orders[o].orderStatus =
                         IF @ = "pending" THEN "confirmed"
                         ELSE IF @ = "confirmed" THEN "processing" ELSE @],
            o, "processing", "processing")

\* handlePaymentCaptured on the record p found by the payment id.
capturedOn(d, p) ==
  orderCaptured(
    [d EXCEPT !.payments[p].status = "captured",
              !.payments[p].paymentResponse = "captured"],
    d.payments[p].order)

\* handlePaymentFailed on the record p found by the order id.
failedOn(d, p, razorpayPaymentId) ==
  LET o == d.payments[p].order
      e == [d EXCEPT !.payments[p].razorpayPaymentId = razorpayPaymentId,
                     !.payments[p].status = "failed",
                     !.payments[p].paymentResponse = "failed"]
  IN IF o \notin DOMAIN e.orders THEN e
     ELSE [e EXCEPT !.orders[o].paymentStatus = "failed"]

\* The state a refund of `amount` leaves a payment of `total` in.
refundedStatus(amount, total) ==
  IF amount = total THEN "refunded" ELSE "partially_refunded"

\* Amounts travel to the gateway in paise, Math.round(amount * 100), and
\* come back as amount / 100; the model counts in paise throughout.
toPaise(amount) == amount
fromPaise(paise) == paise

\* handleRefundProcessed on the record p found by the payment id.
refundProcessedOn(d, p, refund) ==
  LET o == d.payments[p].order
      refundAmount == fromPaise(refund.amount)
      status == refundedStatus(refundAmount, d.payments[p].amount)
      e == [d EXCEPT !.payments[p].refundAmount = refundAmount,
                     !.payments[p].refundId = refund.id,
                     !.payments[p].refundStatus = refund.status,
                     !.payments[p].status = status]
  IN IF o \notin DOMAIN e.orders THEN e
     ELSE [e EXCEPT !.orders[o].paymentStatus = status]

\* POST /api/payments/webhook with a signature that verifies: the event is
\* one the gateway sent, about one of its payments or refunds.  Events
\* arrive in any order and any number of times.
handlePaymentAuthorized ==
  \E razorpayPaymentId \in GatewayPayments :
    /\ IF paymentsByOrderId(db, payOrder(razorpayPaymentId)) = {}
       THEN UNCHANGED <<payments, orders, trackings>>
       ELSE \E p \in paymentsByOrderId(db, payOrder(razorpayPaymentId)) :
              commit(authorizedOn(db, p, razorpayPaymentId))
    /\ UNCHANGED gateway
    /\ orderFrame

handlePaymentCaptured ==
  \E razorpayPaymentId \in GatewayPayments :
    /\ IF paymentsByPaymentId(db, razorpayPaymentId) = {}
       THEN UNCHANGED <<payments, orders, trackings>>
       ELSE \E p \in paymentsByPaymentId(db, razorpayPaymentId) :
              /\ canPush(db, payments[p].order)
              /\ commit(capturedOn(db, p))
    /\ UNCHANGED gateway
    /\ orderFrame

handlePaymentFailed ==
  \E razorpayPaymentId \in GatewayPayments :
    /\ IF paymentsByOrderId(db, payOrder(razorpayPaymentId)) = {}
       THEN UNCHANGED <<payments, orders, trackings>>
       ELSE \E p \in paymentsByOrderId(db, payOrder(razorpayPaymentId)) :
              commit(failedOn(db, p, razorpayPaymentId))
    /\ UNCHANGED gateway
    /\ orderFrame

\* refund.processed, for a refund the gateway holds.
handleRefundProcessed ==
  \E i \in DOMAIN gateway.refunds :
    LET refund == [id |-> i,
                   payment_id |-> gateway.refunds[i].payment_id,
                   amount |-> gateway.refunds[i].amount,
                   status |-> "processed"]
    IN /\ IF paymentsByPaymentId(db, refund.payment_id) = {}
          THEN UNCHANGED <<payments, orders, trackings>>
          ELSE \E p \in paymentsByPaymentId(db, refund.payment_id) :
                 commit(refundProcessedOn(db, p, refund))
       /\ UNCHANGED gateway
       /\ orderFrame

webhookHandler ==
  \/ handlePaymentAuthorized
  \/ handlePaymentCaptured
  \/ handlePaymentFailed
  \/ handleRefundProcessed

\* updateOrderStatus once the order is found: the status is set whatever
\* the order's status was; cancelling a captured order marks its payment
\* status refunded.
statusUpdatedOn(d, o, status) ==
  pushUpdate(
    [d EXCEPT !.orders[o].orderStatus = status,
              !.orders[o].paymentStatus =
                 IF status = "cancelled" /\ @ = "captured" THEN "refunded"
                 ELSE @],
    o, status, status)

\* The statuses a DeliveryTracking and its updates can hold: the schema's
\* enum, which save() validates.
DeliveryStatuses ==
  {"pending", "processing", "shipped", "out_for_delivery", "delivered",
   "failed", "returned", "cancelled"}

\* updateOrderStatus(orderId, {status}): the response status and the
\* database it leaves.  The status is pushed to the order's tracking as it
\* is; one the tracking's enum does not have makes deliveryTracking.save
\* throw, and the catch aborts the transaction.
updateOrderStatusOn(d, orderId, status) ==
  IF orderId \notin DOMAIN d.orders THEN [status |-> 404, db |-> d]
  ELSE IF d.orders[orderId].deliveryTrackingId \in DOMAIN d.trackings
          /\ status \notin DeliveryStatuses
  THEN [status |-> 500, db |-> d]
  ELSE [status |-> 200, db |-> statusUpdatedOn(d, orderId, status)]

updateOrderStatus ==
  \E orderId \in 1..(Len(orders) + 1), status \in OrderStatuses :
    LET out == updateOrderStatusOn(db, orderId, status)
    IN /\ out.status = 200 => canPush(db, orderId)
       /\ commit(out.db)
       /\ UNCHANGED gateway
       /\ orderFrame

cancellable(order) ==
  order.orderStatus \in {"pending", "confirmed", "processing"}

\* A cancellation that also takes the item's price out of the order.
cancelItem_zeroTotal(item, reason) ==
  [item EXCEPT !.status = "cancelled", !.cancelledAt = TRUE,
               !.cancelReason = reason, !.totalPrice = 0]

cancelItem(item, reason) ==
  [item EXCEPT !.status = "cancelled", !.cancelledAt = TRUE,
               !.cancelReason = reason]

\* cancelOrder up to the refund: the order and all of its items are
\* cancelled and the tracking says so.
cancelledOn(d, o, reason) ==
  pushUpdate(
    [d EXCEPT !.orders[o].orderStatus = "cancelled",
              !.orders[o].cancelledAt = TRUE,
              !.orders[o].cancelReason = reason,
              !.orders[o].items =
                 [i \in DOMAIN @ |-> cancelItem(@[i], reason)]],
    o, "cancelled", "cancelled")

\* cancelOrderItems up to the refund.  An index that names no active item
\* is passed over; the order is cancelled when no active item is left.
selected(order, items) ==
  {i \in DOMAIN order.items :
     (i - 1) \in items /\ order.items[i].status = "active"}

\* An order that counts as cancelled as soon as one item is cancelled.
allItemsCancelled_any(order, items) == selected(order, items) # {}

allItemsCancelled(order, items) ==
  \A i \in DOMAIN order.items :
    order.items[i].status = "active" => i \in selected(order, items)

itemsCancelledOn(d, o, items, reason) ==
  LET order == d.orders[o]
      all == allItemsCancelled(order, items)
      e == [d EXCEPT
              !.orders[o].items =
                 [i \in DOMAIN @ |->
                    IF i \in selected(order, items)
                    THEN cancelItem(@[i], reason) ELSE @[i]],
              !.orders[o].orderStatus =
                 IF all THEN "cancelled" ELSE "partially_cancelled",
              !.orders[o].cancelledAt = IF all THEN TRUE ELSE @,
              !.orders[o].cancelReason = IF all THEN reason ELSE @]
      t == order.deliveryTrackingId
  IN pushUpdate(e, o, IF all THEN "cancelled" ELSE "processing",
                IF all \/ t \notin DOMAIN d.trackings THEN "cancelled"
                ELSE d.trackings[t].currentStatus)

\* The payment and the order once the gateway has accepted a refund.
refundRecordedOn(d, o, refundAmount, refund, status) ==
  LET p == d.orders[o].paymentId
  IN [d EXCEPT !.payments[p].refundAmount = refundAmount,
               !.payments[p].refundId = refund.id,
               !.payments[p].refundStatus = refund.status,
               !.payments[p].status = status,
               !.orders[o].paymentStatus = status]

\* The refund a cancellation owes: the order was captured and its payment
\* record carries the gateway's payment id.
refundDue(d, o) ==
  /\ d.orders[o].paymentStatus = "captured"
  /\ d.orders[o].paymentId \in DOMAIN d.payments
  /\ d.payments[d.orders[o].paymentId].razorpayPaymentId # NoId

\* What razorpayInstance.payments.refund returned: a refund with its id
\* and status, or Thrown when the call threw.
Thrown == [id |-> NoId, status |-> "error"]
Refunds ==
  {[id |-> Len(gateway.refunds) + 1, status |-> s] :
     s \in {"processed", "pending"}}

\* The gateway once it has accepted a refund of a payment.
refundIssued(g, razorpayPaymentId, refundAmount) ==
  [g EXCEPT !.refunds =
     Append(@, [payment_id |-> razorpayPaymentId,
                amount |-> toPaise(refundAmount)])]

\* An inner try that writes the refund down before the gateway answered.
refundOutcomeOn_recorded(d, o, refundAmount, refund, status) ==
  refundRecordedOn(d, o, refundAmount, refund, status)

\* The inner try around the gateway call: the refund is recorded when the
\* gateway returned one; when the call threw, the catch logs the error and
\* the cancellation goes on without a refund.
refundOutcomeOn(d, o, refundAmount, refund, status) ==
  IF refund = Thrown THEN d
  ELSE refundRecordedOn(d, o, refundAmount, refund, status)

\* cancelOrder(orderId, {reason}) by `user` with the outcome of the
\* gateway call: the response status, the database it leaves, and the
\* refund it asked the gateway for (requested, refundAmount).
cancelOrderOn(d, orderId, user, reason, refund) ==
  IF orderId \notin DOMAIN d.orders \/ d.orders[orderId].user # user
  THEN [status |-> 404, db |-> d, requested |-> FALSE, refundAmount |-> 0]
  ELSE IF ~cancellable(d.orders[orderId])
  THEN [status |-> 400, db |-> d, requested |-> FALSE, refundAmount |-> 0]
  ELSE
    LET e == cancelledOn(d, orderId, reason)
    IN IF refundDue(e, orderId)
       THEN LET amount == e.payments[e.orders[orderId].paymentId].amount
            IN [status |-> 200,
                db |-> refundOutcomeOn(e, orderId, amount, refund,
                                       "refunded"),
                requested |-> TRUE, refundAmount |-> amount]
       ELSE [status |-> 200, db |-> e, requested |-> FALSE,
             refundAmount |-> 0]

\* cancelOrderItems(orderId, {items, reason}) by `user`, likewise.
cancelOrderItemsOn(d, orderId, user, items, reason, refund) ==
  IF orderId \notin DOMAIN d.orders \/ d.orders[orderId].user # user
  THEN [status |-> 404, db |-> d, requested |-> FALSE, refundAmount |-> 0]
  ELSE IF ~cancellable(d.orders[orderId])
  THEN [status |-> 400, db |-> d, requested |-> FALSE, refundAmount |-> 0]
  ELSE
    LET order == d.orders[orderId]
        e == itemsCancelledOn(d, orderId, items, reason)
        refundAmount ==
          SumSeq([i \in DOMAIN order.items |->
                    IF i \in selected(order, items)
                    THEN order.items[i].totalPrice ELSE 0])
    IN IF refundAmount > 0 /\ refundDue(e, orderId)
       THEN [status |-> 200,
             db |-> refundOutcomeOn(e, orderId, refundAmount, refund,
                      IF allItemsCancelled(order, items) THEN "refunded"
                      ELSE "partially_refunded"),
             requested |-> TRUE, refundAmount |-> refundAmount]
       ELSE [status |-> 200, db |-> e, requested |-> FALSE,
             refundAmount |-> 0]

\* The handler's transaction commits, and the gateway holds the refund it
\* accepted.  A call that asks for no refund has no gateway outcome.
cancelStep(orderId, out, refund) ==
  /\ out.status = 200 => canPush(db, orderId)
  /\ IF out.requested /\ refund # Thrown
     THEN /\ Len(gateway.refunds) < MaxRefunds
          /\ gateway' = refundIssued(gateway,
               payments[orders[orderId].paymentId].razorpayPaymentId,
               out.refundAmount)
     ELSE /\ ~out.requested => refund = Thrown
          /\ UNCHANGED gateway
  /\ commit(out.db)

cancelOrder ==
  \E orderId \in 1..(Len(orders) + 1), user \in Users \cup {"u9"},
     reason \in Reasons, refund \in Refunds \cup {Thrown} :
    /\ cancelStep(orderId,
                  cancelOrderOn(db, orderId, user, reason, refund), refund)
    /\ orderFrame

cancelOrderItems ==
  \E orderId \in 1..(Len(orders) + 1), user \in Users \cup {"u9"},
     items \in (SUBSET {0, 1, 2}) \ {{}}, reason \in Reasons,
     refund \in Refunds \cup {Thrown} :
    /\ cancelStep(orderId,
                  cancelOrderItemsOn(db, orderId, user, items, reason,
                                     refund), refund)
    /\ orderFrame

\* One checkout at a time, then the payment and order calls on what it
\* created.
OrderInit ==
  /\ catalog = shopCatalog
  /\ offers = shopOffers
  /\ \E quantity \in Quantities : carts = <<filledCartOf(quantity)>>
  /\ snapshots = <<>> /\ orders = <<>> /\ payments = <<>>
  /\ trackings = <<>> /\ payouts = <<>>
  /\ gateway = [orders |-> <<>>, refunds |-> <<>>]
  /\ orderReq = [r \in {"k1"} |-> OrderIdle]
  /\ cartReq = <<>> /\ payoutReq = <<>> /\ offerReq = <<>>
  /\ paymentReq = <<>> /\ env = <<>>

OrderNext ==
  \/ \E r \in {"k1"} : createOrder(r)
  \/ verifyPayment
  \/ webhookHandler
  \/ updateOrderStatus
  \/ cancelOrder
  \/ cancelOrderItems

SpecOrder == OrderInit /\ [][OrderNext]_vars

\* The fields the payment.captured event is about.
paymentState(d) ==
  [payments |-> [p \in DOMAIN d.payments |-> d.payments[p].status],
   orders |-> [o \in DOMAIN d.orders |->
                 <<d.orders[o].paymentStatus, d.orders[o].orderStatus>>]]

orderItemsTotal(order) ==
  SumSeq([i \in DOMAIN order.items |-> order.items[i].totalPrice])

PaymentReqs == {"z1", "z2"}

PaymentIdle ==
  [pc |-> "idle", user |-> "u1", orderId |-> NoId, amount |-> 0,
   existingPayment |-> NoId, razorpayOrderId |-> NoId, payment |-> NoId]

paymentFrame ==
  UNCHANGED <<carts, snapshots, trackings, offers, payouts, catalog,
              payoutReq, offerReq, cartReq, orderReq, env>>

\* Payment.find({order, status: {$nin: ["failed"]}})
livePayments(d, o) ==
  {p \in DOMAIN d.payments :
     d.payments[p].order = o /\ d.payments[p].status # "failed"}

\* req.body.amount is the client's: the validator asks for a positive
\* number, and nothing compares it with the order.
RazorpayAmounts(order) == {order.totalPayableAmount, 100} \ {0}

\* createRazorpayOrder up to razorpayInstance.orders.create: the order must
\* be the user's; a payment of the order that has not failed and carries a
\* gateway order id is answered as it is; otherwise a gateway order is
\* created.  None of this runs in a transaction.
crFind(r, user, orderId, amount) ==
  /\ paymentReq[r].pc = "idle"
  /\ IF orderId \notin DOMAIN orders \/ orders[orderId].user # user
     THEN UNCHANGED <<paymentReq, gateway>>
     ELSE \E existingPayment \in
               (IF livePayments(db, orderId) = {} THEN {NoId}
                ELSE livePayments(db, orderId)) :
            IF existingPayment # NoId
               /\ payments[existingPayment].razorpayOrderId # NoId
            THEN UNCHANGED <<paymentReq, gateway>>
            ELSE /\ Len(gateway.orders) < MaxGatewayOrders
                 /\ gateway' = [gateway EXCEPT !.orders =
                      Append(@, [amount |-> toPaise(amount),
                                 receipt |-> orders[orderId].orderNumber])]
                 /\ paymentReq' = [paymentReq EXCEPT ![r] =
                      [PaymentIdle EXCEPT
                         !.pc = "save", !.user = user, !.orderId = orderId,
                         !.amount = amount,
                         !.existingPayment = existingPayment,
                         !.razorpayOrderId = Len(gateway.orders) + 1]]
  /\ UNCHANGED <<payments, orders>>
  /\ paymentFrame

\* existingPayment.save() or Payment.create(...)
crSave(r) ==
  /\ paymentReq[r].pc = "save"
  /\ LET q == paymentReq[r]
     IN IF q.existingPayment # NoId
        THEN /\ payments' = [payments EXCEPT
                  ![q.existingPayment].razorpayOrderId = q.razorpayOrderId]
             /\ paymentReq' = [paymentReq EXCEPT ![r] = PaymentIdle]
        ELSE /\ payments' = Append(payments,
                  [paymentOf(q.user, q.amount, q.razorpayOrderId,
                             orders[q.orderId].paymentType)
                     EXCEPT !.order = q.orderId])
             /\ paymentReq' = [paymentReq EXCEPT
                  ![r].pc = "link", ![r].payment = Len(payments) + 1]
  /\ UNCHANGED <<orders, gateway>>
  /\ paymentFrame

\* Order.findByIdAndUpdate(orderId, {paymentId: payment._id})
crLink(r) ==
  /\ paymentReq[r].pc = "link"
  /\ orders' = [orders EXCEPT
       ![paymentReq[r].orderId].paymentId = paymentReq[r].payment]
  /\ paymentReq' = [paymentReq EXCEPT ![r] = PaymentIdle]
  /\ UNCHANGED <<payments, gateway>>
  /\ paymentFrame

\* A database call throws: the catch answers 500, what was written stays.
crFail(r) ==
  /\ paymentReq[r].pc \in {"save", "link"}
  /\ paymentReq' = [paymentReq EXCEPT ![r] = PaymentIdle]
  /\ UNCHANGED <<payments, orders, gateway>>
  /\ paymentFrame

createRazorpayOrder(r) ==
  \/ \E user \in Users, orderId \in 1..(Len(orders) + 1) :
     \E amount \in (IF orderId \in DOMAIN orders
                    THEN RazorpayAmounts(orders[orderId]) ELSE {100}) :
       crFind(r, user, orderId, amount)
  \/ crSave(r)
  \/ crLink(r)
  \/ crFail(r)

(***************************************************************************)
(* The payment controller: processRefund                                   *)
(***************************************************************************)
\* req.body.amount of a refund, a positive number: a part, the rest after
\* that part, more than was paid; 0 stands for a body without amount.
RefundAmounts(payment) ==
  {a \in {0, 5000, payment.amount - 5000, payment.amount + 5000} : a >= 0}

\* processRefund(paymentId, {amount}) with the outcome of the gateway
\* call: the response status and the database it leaves.
processRefundOn(d, paymentId, amount, refund) ==
  IF paymentId \notin DOMAIN d.payments THEN [status |-> 404, db |-> d]
  ELSE
    LET payment == d.payments[paymentId]
        refundAmount == IF amount = 0 THEN payment.amount ELSE amount
        status == refundedStatus(refundAmount, payment.amount)
        o == payment.order
        e == [d EXCEPT !.payments[paymentId].refundAmount = refundAmount,
                       !.payments[paymentId].refundId = refund.id,
                       !.payments[paymentId].refundStatus = refund.status,
                       !.payments[paymentId].status = status]
    IN IF payment.status # "captured" THEN [status |-> 400, db |-> d]
       ELSE IF refundAmount <= 0 \/ refundAmount > payment.amount
       THEN [status |-> 400, db |-> d]
       ELSE IF refund = Thrown THEN [status |-> 500, db |-> d]
       ELSE [status |-> 200,
             db |-> IF o \notin DOMAIN e.orders THEN e
                    ELSE [e EXCEPT !.orders[o].paymentStatus = status]]

processRefund ==
  \E paymentId \in 1..(Len(payments) + 1),
     refund \in Refunds \cup {Thrown} :
  \E amount \in (IF paymentId \in DOMAIN payments
                 THEN RefundAmounts(payments[paymentId]) ELSE {0}) :
    LET out == processRefundOn(db, paymentId, amount, refund)
    IN /\ out.status = 200 => Len(gateway.refunds) < MaxRefunds
       /\ commit(out.db)
       /\ gateway' =
            IF out.status # 200 THEN gateway
            ELSE refundIssued(gateway,
                   payments[paymentId].razorpayPaymentId,
                   out.db.payments[paymentId].refundAmount)
       /\ orderFrame

\* One checkout, then the payment calls and the gateway's events on the
\* order it created.
PaymentInit ==
  /\ catalog = shopCatalog
  /\ offers = shopOffers
  /\ carts = <<filledCart>>
  /\ snapshots = <<>> /\ orders = <<>> /\ payments = <<>>
  /\ trackings = <<>> /\ payouts = <<>>
  /\ gateway = [orders |-> <<>>, refunds |-> <<>>]
  /\ orderReq = [r \in {"k1"} |-> OrderIdle]
  /\ paymentReq = [r \in PaymentReqs |-> PaymentIdle]
  /\ cartReq = <<>> /\ payoutReq = <<>> /\ offerReq = <<>> /\ env = <<>>

PaymentNext ==
  \/ \E r \in {"k1"} : createOrder(r)
  \/ \E r \in PaymentReqs : createRazorpayOrder(r)
  \/ verifyPayment
  \/ handlePaymentAuthorized
  \/ handlePaymentCaptured
  \/ handlePaymentFailed
  \/ cancelOrder

SpecPayment == PaymentInit /\ [][PaymentNext]_vars

RefundInit ==
  /\ catalog = shopCatalog
  /\ offers = shopOffers
  /\ carts = <<filledCart>>
  /\ snapshots = <<>> /\ orders = <<>> /\ payments = <<>>
  /\ trackings = <<>> /\ payouts = <<>>
  /\ gateway = [orders |-> <<>>, refunds |-> <<>>]
  /\ orderReq = [r \in {"k1"} |-> OrderIdle]
  /\ cartReq = <<>> /\ payoutReq = <<>> /\ offerReq = <<>>
  /\ paymentReq = <<>> /\ env = <<>>

RefundNext ==
  \/ \E r \in {"k1"} : createOrder(r)
  \/ verifyPayment
  \/ webhookHandler
  \/ processRefund
  \/ cancelOrder
  \/ cancelOrderItems

SpecRefund == RefundInit /\ [][RefundNext]_vars

WebhookSecret == "whsec"
\* process.env.RAZORPAY_WEBHOOK_SECRET: the gateway's secret, or not set.
Envs ==
  {[RAZORPAY_WEBHOOK_SECRET |-> WebhookSecret],
   [RAZORPAY_WEBHOOK_SECRET |-> ""]}

\* HMAC-SHA256 of the body under a secret.
WebhookHmac(secret, body) == <<secret, body>>
\* The x-razorpay-signature header of a request: the gateway's, one made
\* without the secret, or none (<<>>).
WebhookSignatures(body) ==
  {WebhookHmac(WebhookSecret, body), WebhookHmac("guess", body), <<>>}

\* req.body of a webhook: the event, and the payment or refund entity of
\* its payload.  Anyone can post one.
WebhookBodies ==
  {[event |-> e, id |-> p, order_id |-> payOrder(p), payment_id |-> NoId,
    amount |-> 0, status |-> ""] :
     e \in {"payment.authorized", "payment.captured", "payment.failed",
            "order.paid"},
     p \in GatewayPayments}
  \cup {[event |-> "refund.processed", id |-> 1, order_id |-> NoId,
         payment_id |-> p, amount |-> 5000, status |-> "processed"] :
          p \in GatewayPayments}

\* The switch on req.body.event: each handler on each record its findOne
\* may return; an unknown event is logged.
dispatched(d, body) ==
  LET found ==
        IF body.event \in {"payment.authorized", "payment.failed"}
        THEN paymentsByOrderId(d, body.order_id)
        ELSE IF body.event = "payment.captured"
        THEN paymentsByPaymentId(d, body.id)
        ELSE IF body.event = "refund.processed"
        THEN paymentsByPaymentId(d, body.payment_id)
        ELSE {}
      handled(p) ==
        IF body.event = "payment.authorized"
        THEN authorizedOn(d, p, body.id)
        ELSE IF body.event = "payment.captured" THEN capturedOn(d, p)
        ELSE IF body.event = "payment.failed" THEN failedOn(d, p, body.id)
        ELSE refundProcessedOn(d, p, body)
  IN IF found = {} THEN {[status |-> 200, payment |-> NoId, db |-> d]}
     ELSE {[status |-> 200, payment |-> p, db |-> handled(p)] : p \in found}

\* webhookHandler(req) under the server's webhookSecret.
webhookOn(d, webhookSecret, webhookSignature, body) ==
  IF webhookSecret # "" /\ webhookSignature = <<>>
  THEN {[status |-> 400, payment |-> NoId, db |-> d]}
  ELSE IF webhookSecret # ""
          /\ webhookSignature # WebhookHmac(webhookSecret, body)
  THEN {[status |-> 400, payment |-> NoId, db |-> d]}
  ELSE dispatched(d, body)

\* POST /api/payments/webhook from anyone.
webhookRequest ==
  \E body \in WebhookBodies :
  \E webhookSignature \in WebhookSignatures(body) :
  \E out \in webhookOn(db, env.RAZORPAY_WEBHOOK_SECRET, webhookSignature,
                       body) :
    /\ (out.payment # NoId /\ body.event = "payment.captured")
         => canPush(db, payments[out.payment].order)
    /\ commit(out.db)
    /\ UNCHANGED gateway
    /\ orderFrame

\* A server with or without the webhook secret in its environment, one
\* checkout, and then whatever arrives at the payment endpoints.
WebhookInit ==
  /\ catalog = shopCatalog
  /\ offers = shopOffers
  /\ carts = <<filledCart>>
  /\ snapshots = <<>> /\ orders = <<>> /\ payments = <<>>
  /\ trackings = <<>> /\ payouts = <<>>
  /\ gateway = [orders |-> <<>>, refunds |-> <<>>]
  /\ orderReq = [r \in {"k1"} |-> OrderIdle]
  /\ env \in Envs
  /\ cartReq = <<>> /\ payoutReq = <<>> /\ offerReq = <<>>
  /\ paymentReq = <<>>

WebhookNext ==
  \/ \E r \in {"k1"} : createOrder(r)
  \/ verifyPayment
  \/ webhookRequest

SpecWebhook == WebhookInit /\ [][WebhookNext]_vars

remaining(payment) == payment.amount - payment.refundAmount

Descriptions == {"note"}

\* The switch of updateTrackingStatus on the delivery status.
trackedStatus(order, status, description) ==
  IF status \in {"processing", "shipped", "delivered", "returned"}
  THEN [order EXCEPT !.orderStatus = status]
  ELSE IF status = "cancelled"
  THEN [order EXCEPT !.orderStatus = "cancelled", !.cancelledAt = TRUE,
                     !.cancelReason = description]
  ELSE order

\* updateTrackingStatus(trackingId, {status, description}): the response
\* status and the database it leaves.
updateTrackingStatusOn(d, trackingId, status, description) ==
  IF trackingId \notin DOMAIN d.trackings THEN [status |-> 404, db |-> d]
  ELSE
    LET o == d.trackings[trackingId].order
        e == [d EXCEPT
                !.trackings[trackingId].statusUpdates = Append(@, status),
                !.trackings[trackingId].currentStatus = status]
    IN [status |-> 200,
        db |-> IF o \notin DOMAIN e.orders THEN e
               ELSE [e EXCEPT !.orders[o] =
                       trackedStatus(@, status, description)]]

updateTrackingStatus ==
  \E trackingId \in 1..(Len(trackings) + 1), status \in DeliveryStatuses,
     description \in Descriptions :
    LET out == updateTrackingStatusOn(db, trackingId, status, description)
    IN /\ out.status = 200 =>
            Len(trackings[trackingId].statusUpdates) < MaxUpdates
       /\ commit(out.db)
       /\ UNCHANGED gateway
       /\ orderFrame

\* The switch of addTrackingDetails on the delivery status.
shippedStatus(order, status) ==
  IF status \in {"shipped", "delivered"}
  THEN [order EXCEPT !.orderStatus = status] ELSE order

\* addTrackingDetails(orderId, {status, description}): the order's
\* tracking is created when it has none, and updated otherwise.
addTrackingDetailsOn(d, orderId, status, description) ==
  IF orderId \notin DOMAIN d.orders THEN [status |-> 404, db |-> d]
  ELSE
    LET found == {t \in DOMAIN d.trackings : d.trackings[t].order = orderId}
    IN IF found = {}
       THEN [status |-> 200,
             db |-> [d EXCEPT
                       !.trackings =
                          Append(@, [order |-> orderId,
                                     currentStatus |-> status,
                                     statusUpdates |-> <<status>>]),
                       !.orders[orderId] =
                          [shippedStatus(@, status) EXCEPT
                             !.deliveryTrackingId = Len(d.trackings) + 1]]]
       ELSE LET t == CHOOSE t \in found : \A u \in found : t <= u
            IN [status |-> 200,
                db |-> [d EXCEPT
                          !.trackings[t].statusUpdates = Append(@, status),
                          !.trackings[t].currentStatus = status,
                          !.orders[orderId] = shippedStatus(@, status)]]

addTrackingDetails ==
  \E orderId \in 1..(Len(orders) + 1), status \in DeliveryStatuses,
     description \in Descriptions :
    LET out == addTrackingDetailsOn(db, orderId, status, description)
    IN /\ out.status = 200 => canPush(db, orderId)
       /\ commit(out.db)
       /\ UNCHANGED gateway
       /\ orderFrame

\* One checkout, then everything that moves the order's status.
StatusInit ==
  /\ catalog = shopCatalog
  /\ offers = shopOffers
  /\ carts = <<filledCart>>
  /\ snapshots = <<>> /\ orders = <<>> /\ payments = <<>>
  /\ trackings = <<>> /\ payouts = <<>>
  /\ gateway = [orders |-> <<>>, refunds |-> <<>>]
  /\ orderReq = [r \in {"k1"} |-> OrderIdle]
  /\ cartReq = <<>> /\ payoutReq = <<>> /\ offerReq = <<>>
  /\ paymentReq = <<>> /\ env = <<>>

StatusNext ==
  \/ \E r \in {"k1"} : createOrder(r)
  \/ verifyPayment
  \/ updateOrderStatus
  \/ updateTrackingStatus
  \/ addTrackingDetails
  \/ cancelOrder
  \/ cancelOrderItems

SpecStatus == StatusInit /\ [][StatusNext]_vars

\* The order life cycle of the specification.
Transitions ==
  {<<"pending", "confirmed">>, <<"confirmed", "processing">>,
   <<"processing", "shipped">>, <<"shipped", "delivered">>}
  \cup ({"pending", "confirmed", "processing"}
          \X {"cancelled", "partially_cancelled"})
  \cup ({"delivered"} \X {"returned", "partially_returned"})

C17_CapturedByAnotherPayment ==
  \E o \in DOMAIN orders, p, q \in DOMAIN payments :
    /\ cancellable(orders[o]) /\ orders[o].paymentStatus = "captured"
    /\ orders[o].paymentId = q /\ payments[q].razorpayPaymentId = NoId
    /\ p # q /\ payments[p].order = o /\ payments[p].status = "captured"
    /\ payments[q].order = o

itemOrders(items) == {items[k].order : k \in DOMAIN items}

\* The orders in any existing Payout, of whatever store.
ordersInAnyPayout ==
  UNION {itemOrders(payouts[i].items) : i \in DOMAIN payouts}

paymentsOfOrder(d, o) == {p \in DOMAIN d.payments : d.payments[p].order = o}

C20_WitnessCod ==
  \E r \in OrderReqs, o \in DOMAIN orders :
    /\ orderReq[r].status = 201
    /\ orders[o].paymentType = "cod"
    /\ payments = <<>>

(***************************************************************************)
(* Pricing of a cart line                                                  *)
(***************************************************************************)
\* price and sellingPrice of product p1; the first is the item of 1000.00
\* sold without a product discount.
PricingPrices == {<<100000, 100000>>, <<20000, 10000>>}
\* type, discountAmt, discountPercentage, maxDiscount (0: none given).
PricingOffers ==
  {<<"percentage", 0, 10, 8000>>, <<"percentage", 0, 10, 0>>,
   <<"amount", 15000, 0, 0>>}
PricingCoupons ==
  {<<"amount", 5000, 0, 0>>, <<"percentage", 0, 10, 0>>,
   <<"percentage", 0, 50, 2000>>}

\* A cart holding p1 and p2, priced before any coupon or offer is applied.
PricingInit ==
  /\ \E p1 \in PricingPrices, c \in PricingCoupons, o \in PricingOffers :
       /\ catalog = [products |-> catalogOf(p1),
                     coupons |-> <<couponOf(c, {})>>]
       /\ offers = <<discountDoc("s1", {"p1"}, o[1], o[2], o[3], o[4])>>
  /\ carts = <<calculateItemPrices(
                 [newCart("u1", "s1") EXCEPT
                    !.items = <<newItem("p1", 1), newItem("p2", 1)>>])>>
  /\ cartReq = [r \in {"c1"} |-> CartIdle]
  /\ cartOthersInit

PricingNext ==
  \E r \in {"c1"} :
    \/ applyCoupon(r)
    \/ applyOffer(r)
    \/ removeCoupon(r)
    \/ removeOffer(r)
    \/ updateProductQuantity(r)
    \/ cartSave(r)

SpecPricing == PricingInit /\ [][PricingNext]_vars

\* The offer and the coupon that apply to line i of cart c.
lineOffers(c, i) ==
  applicable(OfferById(carts[c].offer), carts[c].items[i].product)
lineCoupons(c, i) ==
  applicable(CouponById(carts[c].coupon), carts[c].items[i].product)
lineSellingPrice(c, i) ==
  catalog.products[carts[c].items[i].product].sellingPrice

\* C21: for a percentage Offer or Coupon with a maxDiscount the discount
\* recorded on a line is min(selling price * percentage / 100, maxDiscount);
\* an item of 1000.00 with a 10% Offer capped at 80.00 and a flat Coupon of
\* 50.00 gets effectivePrice 870.00.
C21_PercentageCapped ==
  \A c \in DOMAIN carts : \A i \in DOMAIN carts[c].items :
    LET item == carts[c].items[i]
        sp == lineSellingPrice(c, i)
    IN /\ \A d \in lineOffers(c, i) :
            (d.type = "percentage" /\ d.maxDiscount > 0) =>
              item.offerDiscount
                = Min2((sp * d.discountPercentage) \div 100, d.maxDiscount)
       /\ \A d \in lineCoupons(c, i) :
            (d.type = "percentage" /\ d.maxDiscount > 0) =>
              item.couponDiscount
                = Min2((sp * d.discountPercentage) \div 100, d.maxDiscount)
       /\ \A o \in lineOffers(c, i), k \in lineCoupons(c, i) :
            (/\ sp = 100000
             /\ o.type = "percentage" /\ o.discountPercentage = 10
             /\ o.maxDiscount = 8000
             /\ k.type = "amount" /\ k.discountAmt = 5000) =>
              item.effectivePrice = 87000

\* The item of 1000.00 carries the capped Offer and the flat Coupon.
C21_Witness ==
  \E c \in DOMAIN carts : \E i \in DOMAIN carts[c].items :
    /\ lineSellingPrice(c, i) = 100000
    /\ \E o \in lineOffers(c, i) : o.maxDiscount = 8000
    /\ \E k \in lineCoupons(c, i) : k.type = "amount"
    /\ carts[c].items[i].offerDiscount = 8000
    /\ carts[c].items[i].effectivePrice = 87000

\* C22: when an Offer and a percentage Coupon both apply to a line, the
\* Coupon's discount is computed on the Offer-adjusted price, the selling
\* price minus the Offer's discount.
C22_CouponOnOfferAdjustedPrice ==
  \A c \in DOMAIN carts : \A i \in DOMAIN carts[c].items :
    \A o \in lineOffers(c, i), k \in lineCoupons(c, i) :
      k.type = "percentage" =>
        LET item == carts[c].items[i]
            adjusted == lineSellingPrice(c, i) - item.offerDiscount
            byPct == (adjusted * k.discountPercentage) \div 100
        IN item.couponDiscount
             = IF k.maxDiscount = 0 THEN byPct
               ELSE Min2(byPct, k.maxDiscount)

\* C23: the discount an amount-type Offer or Coupon records on a line never
\* exceeds the line's price at the moment it is applied (the selling price
\* for the Offer, the Offer-adjusted price for the Coupon), so the price
\* less the recorded discounts is never negative.
C23_AmountDiscountWithinPrice ==
  \A c \in DOMAIN carts : \A i \in DOMAIN carts[c].items :
    LET item == carts[c].items[i]
        sp == lineSellingPrice(c, i)
    IN /\ \A o \in lineOffers(c, i) :
            o.type = "amount" => item.offerDiscount <= sp
       /\ \A k \in lineCoupons(c, i) :
            k.type = "amount" =>
              item.couponDiscount <= sp - item.offerDiscount
       /\ sp - item.offerDiscount - item.couponDiscount >= 0

C24_SumsOfPriceAndPayable ==
  \A o \in DOMAIN orders :
    LET s == snapshots[orders[o].cartSnapshot]
    IN /\ orders[o].totalWithoutDiscount = lineTotal(s.items, "price")
       /\ orders[o].totalPayableAmount
            = lineTotal(s.items, "effectivePrice") + deliveryCharges
       /\ orders[o].totalDiscount = lineTotal(s.items, "discountAmt")

(***************************************************************************)
(* processPayout                                                           *)
(***************************************************************************)
ProcessReqs == {"x1", "x2"}
TransactionIds == {"t1", "t2"}

\* A processPayout request between calls; status is its last response.
ProcessIdle == [pc |-> "idle", status |-> 0, payout |-> NoId,
                transactionId |-> "", read |-> <<>>]

processed(r, status) ==
  payoutReq' = [payoutReq EXCEPT ![r] = [ProcessIdle EXCEPT !.status = status]]

\* A processPayout without the check that the payout is pending.
ppRead_anyStatus(r, payoutId, transactionId) ==
  /\ payoutReq[r].pc = "idle"
  /\ IF payoutId \notin DOMAIN payouts
     THEN processed(r, 404)
     ELSE payoutReq' = [payoutReq EXCEPT ![r] =
            [pc |-> "save", status |-> 0, payout |-> payoutId,
             transactionId |-> transactionId,
             read |-> payouts[payoutId]]]
  /\ UNCHANGED <<carts, snapshots, orders, payments, trackings, offers,
                 payouts, catalog, gateway, offerReq, cartReq, orderReq,
                 paymentReq, env>>

\* processPayout up to payout.save: Payout.findById in the request's
\* transaction, 404 when there is none, 400 when it is not pending.
ppRead(r, payoutId, transactionId) ==
  /\ payoutReq[r].pc = "idle"
  /\ IF payoutId \notin DOMAIN payouts
     THEN processed(r, 404)
     ELSE IF payouts[payoutId].status # "pending"
          THEN processed(r, 400)
          ELSE payoutReq' = [payoutReq EXCEPT ![r] =
                 [pc |-> "save", status |-> 0, payout |-> payoutId,
                  transactionId |-> transactionId,
                  read |-> payouts[payoutId]]]
  /\ UNCHANGED <<carts, snapshots, orders, payments, trackings, offers,
                 payouts, catalog, gateway, offerReq, cartReq, orderReq,
                 paymentReq, env>>

\* payout.save({session}) and commitTransaction.  The update conflicts when
\* another transaction has written the payout since this one read it; the
\* catch block then aborts and answers 500.
ppSave(r) ==
  /\ payoutReq[r].pc = "save"
  /\ LET q == payoutReq[r]
     IN IF payouts[q.payout] # q.read
        THEN /\ processed(r, 500)
             /\ UNCHANGED payouts
        ELSE /\ payouts' = [payouts EXCEPT ![q.payout] =
                  [@ EXCEPT !.status = "completed",
                            !.transactionId = q.transactionId]]
             /\ processed(r, 200)
  /\ UNCHANGED <<carts, snapshots, orders, payments, trackings, offers,
                 catalog, gateway, offerReq, cartReq, orderReq,
                 paymentReq, env>>

\* payout.save or the commit throws: the transaction aborts with a 500.
ppFail(r) ==
  /\ payoutReq[r].pc = "save"
  /\ processed(r, 500)
  /\ UNCHANGED <<carts, snapshots, orders, payments, trackings, offers,
                 payouts, catalog, gateway, offerReq, cartReq, orderReq,
                 paymentReq, env>>

processPayout ==
  \E r \in ProcessReqs :
    \/ \E payoutId \in 1..MaxPayouts, transactionId \in TransactionIds :
         ppRead(r, payoutId, transactionId)
    \/ ppSave(r)
    \/ ppFail(r)

\* A store with two orders delivered and captured and one still on its
\* way, no payout yet; one generatePayout request and two processPayout
\* requests at a time.
SettleInit ==
  /\ carts = <<>> /\ snapshots = <<>> /\ payments = <<>> /\ trackings = <<>>
  /\ offers = <<>> /\ payouts = <<>> /\ catalog = <<>> /\ gateway = <<>>
  /\ orders = [o \in PayoutOrderIds |->
                 PayoutOrder("s1", IF o = 3 THEN "shipped" ELSE "delivered",
                             "captured", o * 10000)]
  /\ payoutReq = [r \in PayoutReqs \cup ProcessReqs |->
                    IF r \in ProcessReqs THEN ProcessIdle
                    ELSE IF r = "g1" THEN PayoutIdle
                    ELSE [PayoutIdle EXCEPT !.pc = "unused"]]
  /\ offerReq = <<>> /\ cartReq = <<>> /\ orderReq = <<>>
  /\ paymentReq = <<>> /\ env = <<>>

SettleNext == generatePayout \/ processPayout

SpecSettle == SettleInit /\ [][SettleNext]_vars

NumberingInit ==
  /\ catalog = shopCatalog
  /\ offers = shopOffers
  /\ carts = <<filledCart,
               calculateItemPrices(
                 [newCart("u1", "s2") EXCEPT !.items = <<newItem("p3", 1)>>])>>
  /\ snapshots = <<>> /\ orders = <<>> /\ payments = <<>>
  /\ trackings = <<>> /\ payouts = <<>>
  /\ gateway = [orders |-> <<>>, refunds |-> <<>>]
  /\ orderReq = [r \in OrderReqs |-> OrderIdle]
  /\ cartReq = <<>> /\ payoutReq = <<>> /\ offerReq = <<>>
  /\ paymentReq = <<>> /\ env = <<>>

NumberingNext == \E r \in OrderReqs : createOrder(r)

SpecNumbering == NumberingInit /\ [][NumberingNext]_vars

\* No two Orders carry the same order number.
orderNumbersUnique ==
  \A o1, o2 \in DOMAIN orders :
    orders[o1].orderNumber = orders[o2].orderNumber => o1 = o2

C26_BothCheckedOut == Len(orders) = 2 /\ orderNumbersUnique

\* Payment.status of every Payment and Order.paymentStatus of every Order.
paymentStatuses(d) ==
  [payments |-> [p \in DOMAIN d.payments |-> d.payments[p].status],
   orders |-> [o \in DOMAIN d.orders |-> d.orders[o].paymentStatus]]

refundedOf(p) ==
  SumSeq([i \in DOMAIN gateway.refunds |->
            IF payOrder(gateway.refunds[i].payment_id)
                 = payments[p].razorpayOrderId
            THEN fromPaise(gateway.refunds[i].amount) ELSE 0])

C29_RefundedOnlyWithRefund ==
  \A o \in DOMAIN orders :
    (/\ orders[o].paymentId \in DOMAIN payments
     /\ orders[o].paymentStatus \in {"refunded", "partially_refunded"})
      => payments[orders[o].paymentId].refundId # NoId

\* The items of an order that are cancelled, and those still active.
cancelledItems(order) ==
  {i \in DOMAIN order.items : order.items[i].status = "cancelled"}
activeItems(order) ==
  {i \in DOMAIN order.items : order.items[i].status = "active"}

====
